---- MODULE Spec2Model ----
(***************************************************************************)
(* Model of the two tutorial notebooks of SoC-AI-Workshop:                 *)
(*   - the NLP notebook (spaCy / Transformers helper functions),           *)
(*   - the geospatial notebook (ward cleaning, aggregation, merging).      *)
(* Third-party libraries (spaCy, TextBlob, Transformers, pandas) are       *)
(* modelled by small deterministic stand-ins over a finite lexicon; the    *)
(* notebook functions are translated statement by statement.               *)
(***************************************************************************)
EXTENDS Integers, Sequences, FiniteSets, TLC

VARIABLES
    articles,    \* NLP: the `ds` / `articles` sequence handed to the functions
    call,        \* NLP: the last function call: name, arguments, return value
    libcalls,    \* NLP: the library calls made by the last function call
    long_text,   \* NLP: the text handed to _score_long_text
    nb,          \* kernel: the notebook it runs, "nlp" or "geo"
    pc,          \* kernel: how many cells have run in top-to-bottom order
    binding,     \* kernel: for every global name the cell that last bound it, 0 if none
    last,        \* kernel: the cell that ran last, 0 if none
    reruns,      \* kernel: how many cells were executed again out of order
    ward,        \* geo: a value of the "Ward" column
    extracted,   \* geo: what str.extract made of it
    files,       \* geo: the rows of the three downloaded files
    frames,      \* geo: the DataFrames bound so far, by global name
    gpc,         \* geo: how many cells of the pipeline have run
    web,         \* net: for every dataset the number of resources the portal lists
    io,          \* net: the requests sent and the local files written and read, in order
    loop         \* net: the position in the download loop

nlpvars == <<articles, call, libcalls, long_text>>
kernelvars == <<nb, pc, binding, last, reruns>>
wardvars == <<ward, extracted>>
netvars == <<web, io, loop>>
geovars == <<files, frames, gpc, netvars>>
vars == <<nlpvars, kernelvars, wardvars, geovars>>

-----------------------------------------------------------------------------
(* Bounds *)

MaxArticles == 3
MaxBatch == 3
MaxTokens == 1100
MaxReruns == 2
MaxWardLen == 6
MaxRequests == 2
MaxRentals == 1
MaxWards == 2
GridCells == 3
MaxFsa == 2
MaxOverlayWards == 2

-----------------------------------------------------------------------------
(* The parts of the state a specification does not use stay idle *)

\* each behaviour applies one function once to the drawn input
NoCall == [fn |-> "none"]

NlpIdle ==
    /\ articles = <<>>
    /\ long_text = <<>>
    /\ call = NoCall
    /\ libcalls = <<>>

KernelIdle ==
    /\ nb = "nlp"
    /\ pc = 0
    /\ binding = <<>>
    /\ last = 0
    /\ reruns = 0

WardIdle ==
    /\ ward = <<>>
    /\ extracted = [state |-> "idle", name |-> <<>>, number |-> <<>>]

NetIdle ==
    /\ web = <<>>
    /\ io = <<>>
    /\ loop = [i |-> 0, at |-> "idle"]

GeoIdle ==
    /\ files = <<>>
    /\ frames = <<>>
    /\ gpc = 0
    /\ NetIdle

-----------------------------------------------------------------------------
(* Python values *)

PyNone == [pytype |-> "NoneType", v |-> <<>>]
PyStr(s) == [pytype |-> "str", v |-> s]

\* bool(x) for x a str or None
Truthy(x) == x.pytype = "str" /\ x.v # <<>>

\* dict.get(key): None when the key is missing
Get(a, key) == IF key \in DOMAIN a THEN a[key] ELSE PyNone

Min(a, b) == IF a < b THEN a ELSE b

RECURSIVE Flatten(_)
Flatten(ss) == IF ss = <<>> THEN <<>> ELSE Head(ss) \o Flatten(Tail(ss))

RECURSIVE SumSeq(_)
SumSeq(s) == IF s = <<>> THEN 0 ELSE Head(s) + SumSeq(Tail(s))

\* character strings are sequences of one-character strings
IsSpace(c) == c = " "

RECURSIVE LStrip(_)
LStrip(s) == IF s # <<>> /\ IsSpace(Head(s)) THEN LStrip(Tail(s)) ELSE s

RECURSIVE RStrip(_)
RStrip(s) ==
    IF s # <<>> /\ IsSpace(s[Len(s)]) THEN RStrip(SubSeq(s, 1, Len(s) - 1)) ELSE s

\* str.strip()
Strip(s) == RStrip(LStrip(s))

-----------------------------------------------------------------------------
(* The lexicon: what the pre-trained models say about each word.           *)
(* A text is a sequence of words; every library result is derived from it. *)

Lex ==
    [ altman  |-> [lemma_ |-> <<"a","l","t","m","a","n">>, is_stop |-> FALSE, is_punct |-> FALSE,
                   label_ |-> "PERSON", pol |-> 0,
                   entity_group |-> "PER", word |-> <<" ","A","l","t","m","a","n">>, sent |-> 0],
      hinton  |-> [lemma_ |-> <<"h","i","n","t","o","n">>, is_stop |-> FALSE, is_punct |-> FALSE,
                   label_ |-> "PERSON", pol |-> 0,
                   entity_group |-> "PER", word |-> <<"H","i","n","t","o","n">>, sent |-> 0],
      sam     |-> [lemma_ |-> <<"s","a","m">>, is_stop |-> FALSE, is_punct |-> FALSE,
                   label_ |-> "PERSON", pol |-> 0,
                   entity_group |-> "PER", word |-> <<"S","a","m"," "," "," ">>, sent |-> 0],
      openai  |-> [lemma_ |-> <<"o","p","e","n","a","i">>, is_stop |-> FALSE, is_punct |-> FALSE,
                   label_ |-> "ORG", pol |-> 0,
                   entity_group |-> "ORG", word |-> <<"O","p","e","n","A","I">>, sent |-> 0],
      running |-> [lemma_ |-> <<"r","u","n">>, is_stop |-> FALSE, is_punct |-> FALSE,
                   label_ |-> "", pol |-> 0,
                   entity_group |-> "", word |-> <<>>, sent |-> 0],
      runs    |-> [lemma_ |-> <<"r","u","n">>, is_stop |-> FALSE, is_punct |-> FALSE,
                   label_ |-> "", pol |-> 0,
                   entity_group |-> "", word |-> <<>>, sent |-> 0],
      the     |-> [lemma_ |-> <<"t","h","e">>, is_stop |-> TRUE, is_punct |-> FALSE,
                   label_ |-> "", pol |-> 0,
                   entity_group |-> "", word |-> <<>>, sent |-> 0],
      dot     |-> [lemma_ |-> <<".">>, is_stop |-> FALSE, is_punct |-> TRUE,
                   label_ |-> "", pol |-> 0,
                   entity_group |-> "", word |-> <<>>, sent |-> 0],
      nl      |-> [lemma_ |-> <<" "," ">>, is_stop |-> FALSE, is_punct |-> FALSE,
                   label_ |-> "", pol |-> 0,
                   entity_group |-> "", word |-> <<>>, sent |-> 0],
      love    |-> [lemma_ |-> <<"l","o","v","e">>, is_stop |-> FALSE, is_punct |-> FALSE,
                   label_ |-> "", pol |-> 50,
                   entity_group |-> "", word |-> <<>>, sent |-> 1],
      terrible |-> [lemma_ |-> <<"t","e","r","r","i","b","l","e">>, is_stop |-> FALSE, is_punct |-> FALSE,
                   label_ |-> "", pol |-> -100,
                   entity_group |-> "", word |-> <<>>, sent |-> -1] ]

Words == DOMAIN Lex

\* the texts the articles are drawn from
T1 == <<"sam", "altman", "runs", "openai", "dot">>
T2 == <<"the", "terrible", "hinton", "running", "nl", "altman", "dot">>
T3 == <<"love", "the", "running", "dot">>
Corpus == {T1, T2, T3}

TEXT_KEY == "text"

\* an article is a dict; its text is missing, None, empty or a corpus text
ArticleSet ==
    { [title |-> PyStr(<<"dot">>)] } \cup
    { [title |-> PyStr(<<"dot">>), text |-> x] : x \in {PyNone, PyStr(<<>>)} \cup {PyStr(t) : t \in Corpus} }

SeqsUpTo(S, n) == UNION { [1..k -> S] : k \in 0..n }

-----------------------------------------------------------------------------
(* spaCy stand-in *)

\* TextBlob polarity: the mean polarity of the assessed words, 0 when none
BlobPolarity(text) ==
    LET assessed == { i \in DOMAIN text : Lex[text[i]].pol # 0 }
        total == SumSeq([i \in DOMAIN text |-> Lex[text[i]].pol])
    IN IF assessed = {} THEN 0
       ELSE IF total >= 0 THEN total \div Cardinality(assessed)
       ELSE -((-total) \div Cardinality(assessed))

\* nlp(text) with some components disabled: a Doc
MakeDoc(text, disable) ==
    [ tokens   |-> [i \in DOMAIN text |->
                     [text     |-> text[i],
                      lemma_   |-> IF "lemmatizer" \in disable THEN <<>> ELSE Lex[text[i]].lemma_,
                      is_stop  |-> Lex[text[i]].is_stop,
                      is_punct |-> Lex[text[i]].is_punct]],
      ents     |-> IF "ner" \in disable THEN <<>>
                   ELSE LET IsEnt(w) == Lex[w].label_ # ""
                            named == SelectSeq(text, IsEnt)
                        IN [i \in DOMAIN named |-> [text |-> named[i], label_ |-> Lex[named[i]].label_]],
      polarity |-> IF "spacytextblob" \in disable THEN PyNone
                   ELSE [pytype |-> "float", v |-> BlobPolarity(text)] ]

\* minibatch(items, size): consecutive slices of at most `size` items
Minibatch(items, size) ==
    [k \in 1..((Len(items) + size - 1) \div size) |->
        SubSeq(items, (k - 1) * size + 1, Min(k * size, Len(items)))]

\* nlp.pipe(texts, batch_size=..., disable=...): one Doc per text, in order
NlpPipe(texts, batch_size, disable) ==
    LET batches == Minibatch(texts, batch_size)
    IN Flatten([k \in DOMAIN batches |->
                 [i \in DOMAIN batches[k] |-> MakeDoc(batches[k][i], disable)]])

LibCall(fn, n, batch_size) == [fn |-> fn, n |-> n, batch_size |-> batch_size]

-----------------------------------------------------------------------------
(* Counter *)

CounterGet(c, k) == IF k \in DOMAIN c THEN c[k] ELSE 0

\* token_counter[k] += 1
CounterInc(c, k) ==
    [x \in DOMAIN c \cup {k} |-> IF x = k THEN CounterGet(c, k) + 1 ELSE c[x]]

EmptyCounter == [x \in {} |-> 0]

-----------------------------------------------------------------------------
(* count_tokens_pipe *)

\* the inner loop without the stop-word test
RECURSIVE CountDocTokensNoStop(_, _)
CountDocTokensNoStop(tokens, counter) ==
    IF tokens = <<>> THEN counter
    ELSE LET token == Head(tokens)
         IN CountDocTokensNoStop(Tail(tokens),
                IF ~token.is_punct /\ Len(Strip(token.lemma_)) > 0
                THEN CounterInc(counter, token.lemma_)
                ELSE counter)

\* the inner loop over the tokens of one doc
RECURSIVE CountDocTokens(_, _)
CountDocTokens(tokens, counter) ==
    IF tokens = <<>> THEN counter
    ELSE LET token == Head(tokens)
         IN CountDocTokens(Tail(tokens),
                IF ~token.is_stop /\ ~token.is_punct /\ Len(Strip(token.lemma_)) > 0
                THEN CounterInc(counter, token.lemma_)
                ELSE counter)

\* the outer loop over the docs
RECURSIVE CountDocs(_, _)
CountDocs(docs, counter) ==
    IF docs = <<>> THEN counter
    ELSE CountDocs(Tail(docs), CountDocTokens(Head(docs).tokens, counter))

count_tokens_pipe(arts, batch_size) ==
    LET HasText(article) == Get(article, "text") # PyNone
        kept == SelectSeq(arts, HasText)
        texts == [i \in DOMAIN kept |-> kept[i]["text"].v]
        docs == NlpPipe(texts, batch_size, {"ner", "parser"})
    IN [ret |-> CountDocs(docs, EmptyCounter),
        lib |-> <<LibCall("nlp.pipe", Len(texts), batch_size)>>]

-----------------------------------------------------------------------------
(* extract_people, spaCy version *)

DEFAULT_BATCH_SPACY == 64

\* a version that appends only the non-empty name lists
extract_people_spacy_skip_empty(texts, batch_size) ==
    LET docs == NlpPipe(texts, batch_size,
                        {"parser", "tagger", "attribute_ruler", "lemmatizer", "spacytextblob"})
        IsPerson(ent) == ent.label_ = "PERSON"
        Names(doc) == LET persons == SelectSeq(doc.ents, IsPerson)
                      IN [i \in DOMAIN persons |-> persons[i].text]
        NonEmpty(names) == names # <<>>
    IN [ret |-> SelectSeq([i \in DOMAIN docs |-> Names(docs[i])], NonEmpty),
        lib |-> <<LibCall("nlp.pipe", Len(texts), batch_size)>>]

extract_people_spacy(texts, batch_size) ==
    LET docs == NlpPipe(texts, batch_size,
                        {"parser", "tagger", "attribute_ruler", "lemmatizer", "spacytextblob"})
        IsPerson(ent) == ent.label_ = "PERSON"
        Names(doc) == LET persons == SelectSeq(doc.ents, IsPerson)
                      IN [i \in DOMAIN persons |-> persons[i].text]
    IN [ret |-> [i \in DOMAIN docs |-> Names(docs[i])],
        lib |-> <<LibCall("nlp.pipe", Len(texts), batch_size)>>]

(* score_sentiment *)

\* a version that appends only the non-zero polarities
score_sentiment_skip_zero(texts, batch_size) ==
    LET docs == NlpPipe(texts, batch_size,
                        {"parser", "tagger", "attribute_ruler", "lemmatizer", "ner"})
        NonZero(x) == x # 0
    IN [ret |-> SelectSeq([i \in DOMAIN docs |-> docs[i].polarity.v], NonZero),
        lib |-> <<LibCall("nlp.pipe", Len(texts), batch_size)>>]

\* a version that leaves the library's batch size at the default
score_sentiment_default_batch(texts, batch_size) ==
    LET docs == NlpPipe(texts, DEFAULT_BATCH_SPACY,
                        {"parser", "tagger", "attribute_ruler", "lemmatizer", "ner"})
    IN [ret |-> [i \in DOMAIN docs |-> docs[i].polarity.v],
        lib |-> <<LibCall("nlp.pipe", Len(texts), DEFAULT_BATCH_SPACY)>>]

score_sentiment(texts, batch_size) ==
    LET docs == NlpPipe(texts, batch_size,
                        {"parser", "tagger", "attribute_ruler", "lemmatizer", "ner"})
    IN [ret |-> [i \in DOMAIN docs |-> docs[i].polarity.v],
        lib |-> <<LibCall("nlp.pipe", Len(texts), batch_size)>>]

-----------------------------------------------------------------------------
(* Transformers stand-ins *)

\* ner_pipeline(batch, batch_size=..., stride=...): per text, the aggregated
\* entities, each with its entity_group and its word
NerPipeline(batch) ==
    [k \in DOMAIN batch |->
        LET IsEnt(w) == Lex[w].entity_group # ""
            named == SelectSeq(batch[k], IsEnt)
        IN [i \in DOMAIN named |->
               [entity_group |-> Lex[named[i]].entity_group, word |-> Lex[named[i]].word]]]

BOS == "<s>"
EOS == "</s>"
NUM_SPECIAL_TOKENS == 2
MODEL_MAX_LENGTH == 512

\* Encoding::truncate of the tokenizers library: the (start, stop) ranges of
\* the windows, 0-based and stop-exclusive, stepping by max_len - stride
RECURSIVE PartsRanges(_, _, _, _)
PartsRanges(start, max_len, offset, encoding_len) ==
    LET stop == Min(start + max_len, encoding_len)
    IN IF stop = encoding_len THEN << <<start, stop>> >>
       ELSE << <<start, stop>> >> \o PartsRanges(start + offset, max_len, offset, encoding_len)

\* the tokenizer without return_overflowing_tokens: the first window only
TokenizerEncodeFirstOnly(text, max_length, stride) ==
    LET content_len == max_length - NUM_SPECIAL_TOKENS
        ranges == << <<0, Min(Len(text), content_len)>> >>
    IN IF content_len <= 0 \/ stride >= content_len
       THEN [ok |-> FALSE, ranges |-> <<>>, input_ids |-> <<>>]
       ELSE [ok |-> TRUE, ranges |-> ranges,
             input_ids |-> [k \in DOMAIN ranges |->
                 <<BOS>> \o SubSeq(text, ranges[k][1] + 1, ranges[k][2]) \o <<EOS>>]]

\* tk(text, truncation=True, max_length=..., stride=...,
\*    return_overflowing_tokens=True): the windows, or an error when the
\* stride leaves no room once the special tokens are subtracted
TokenizerEncode(text, max_length, stride) ==
    LET content_len == max_length - NUM_SPECIAL_TOKENS
        ranges == IF Len(text) <= content_len THEN << <<0, Len(text)>> >>
                  ELSE PartsRanges(0, content_len, content_len - stride, Len(text))
    IN IF content_len <= 0 \/ stride >= content_len
       THEN [ok |-> FALSE, ranges |-> <<>>, input_ids |-> <<>>]
       ELSE [ok |-> TRUE, ranges |-> ranges,
             input_ids |-> [k \in DOMAIN ranges |->
                 <<BOS>> \o SubSeq(text, ranges[k][1] + 1, ranges[k][2]) \o <<EOS>>]]

\* tk.batch_decode(input_ids, skip_special_tokens=True)
BatchDecode(input_ids) ==
    LET NotSpecial(t) == t \notin {BOS, EOS}
    IN [k \in DOMAIN input_ids |-> SelectSeq(input_ids[k], NotSpecial)]

\* what the sentiment pipeline feeds to its model for one chunk: the chunk
\* tokenized again with the special tokens, truncated to the model's limit
\* (the pipeline is built with truncation=True)
ModelInput(chunk) ==
    <<BOS>> \o SubSeq(chunk, 1, Min(Len(chunk), MODEL_MAX_LENGTH - NUM_SPECIAL_TOKENS)) \o <<EOS>>

\* the classifier: label and score (in percent) of one model input
Predict(input) ==
    LET pos == Cardinality({i \in DOMAIN input : input[i] \in Words /\ Lex[input[i]].sent = 1})
        neg == Cardinality({i \in DOMAIN input : input[i] \in Words /\ Lex[input[i]].sent = -1})
    IN IF pos > neg THEN [label |-> "positive", score |-> (100 * pos) \div (pos + neg)]
       ELSE IF neg > pos THEN [label |-> "negative", score |-> (100 * neg) \div (pos + neg)]
       ELSE [label |-> "neutral", score |-> 90]

\* sentiment_pipeline(chunks, batch_size=...)
SentimentPipeline(chunks) == [k \in DOMAIN chunks |-> Predict(ModelInput(chunks[k]))]

-----------------------------------------------------------------------------
(* extract_people, Transformers version *)

DEFAULT_BATCH_HF == 16
DEFAULT_STRIDE == 128
DEFAULT_MAX_LEN == 512
MIN_NAME_LEN == 5

\* the persons of one document of the pipeline's output
PersonsOfDoc(doc) ==
    LET IsLongPer(e) == e.entity_group = "PER" /\ Len(Strip(e.word)) > MIN_NAME_LEN
        kept == SelectSeq(doc, IsLongPer)
    IN [i \in DOMAIN kept |-> Strip(kept[i].word)]

\* the loop `for start in range(0, len(texts), batch_size)`
RECURSIVE ExtractPeopleLoop(_, _, _, _, _)
ExtractPeopleLoop(texts, batch_size, start, persons_per_doc, lib) ==
    IF start >= Len(texts) THEN [ret |-> persons_per_doc, lib |-> lib]
    ELSE LET batch == SubSeq(texts, start + 1, Min(start + batch_size, Len(texts)))
             batch_entities == NerPipeline(batch)
         IN ExtractPeopleLoop(texts, batch_size, start + batch_size,
                persons_per_doc \o [k \in DOMAIN batch_entities |-> PersonsOfDoc(batch_entities[k])],
                Append(lib, LibCall("ner_pipeline", Len(batch), Len(batch))))

extract_people_hf(texts, batch_size) == ExtractPeopleLoop(texts, batch_size, 0, <<>>, <<>>)

-----------------------------------------------------------------------------
(* _score_long_text and extract_sentiment *)

PyFloat(num, den) == [pytype |-> "float64", num |-> num, den |-> den]
PyRaise(exc) == [pytype |-> "exception", num |-> 0, den |-> 0]

Sign(label) == IF label = "positive" THEN 1 ELSE IF label = "negative" THEN -1 ELSE 0

score_long_text(text, max_len, stride, batch_size) ==
    LET enc == TokenizerEncode(text, max_len, stride)
        chunks == BatchDecode(enc.input_ids)
        chunk_preds == SentimentPipeline(chunks)
        signed == [k \in DOMAIN chunk_preds |-> chunk_preds[k].score * Sign(chunk_preds[k].label)]
        avg == PyFloat(SumSeq(signed), Len(signed))
    IN IF ~enc.ok
       THEN [ret |-> PyRaise("stride"), lib |-> <<>>, ranges |-> <<>>, inputs |-> <<>>]
       ELSE [ret |-> avg,
             lib |-> <<LibCall("sentiment_pipeline", Len(chunks), batch_size)>>,
             ranges |-> enc.ranges,
             inputs |-> [k \in DOMAIN chunks |-> ModelInput(chunks[k])]]

extract_sentiment(texts, batch_size, max_len, stride) ==
    LET each == [i \in DOMAIN texts |-> score_long_text(texts[i], max_len, stride, batch_size)]
    IN [ret |-> [i \in DOMAIN texts |-> each[i].ret],
        lib |-> Flatten([i \in DOMAIN texts |-> each[i].lib])]

-----------------------------------------------------------------------------
(* build_person_sentiment_df *)

PyInt(k) == [pytype |-> "int", v |-> k]

\* s[:k]
SliceTo(s, k) ==
    IF k >= 0 THEN SubSeq(s, 1, Min(k, Len(s)))
    ELSE SubSeq(s, 1, Len(s) + k)

\* the nested loop over zip(ids, names, scores): one record per name
Explode(ids, names_lists, scores) ==
    LET n == Min(Len(ids), Min(Len(names_lists), Len(scores)))
    IN Flatten([k \in 1..n |->
           [j \in DOMAIN names_lists[k] |->
               [article_id |-> ids[k], person |-> names_lists[k][j], score |-> scores[k]]]])

\* ids counted over the kept texts instead of the original sequence
TruthyIdsDense(arts, text_key) ==
    LET IsTruthy(i) == Truthy(Get(arts[i + 1], text_key))
        kept == SelectSeq([k \in 1..Len(arts) |-> k - 1], IsTruthy)
    IN [k \in DOMAIN kept |-> k - 1]

\* [i for i, a in enumerate(articles) if a.get(text_key)], 0-based
TruthyIds(arts, text_key) ==
    LET IsTruthy(i) == Truthy(Get(arts[i + 1], text_key))
    IN SelectSeq([k \in 1..Len(arts) |-> k - 1], IsTruthy)

build_person_sentiment_df_spacy(arts, text_key, max_records) ==
    LET HasText(a) == Truthy(Get(a, text_key))
        kept == SelectSeq(arts, HasText)
        all_texts == [k \in DOMAIN kept |-> kept[k][text_key].v]
        all_ids == TruthyIds(arts, text_key)
        texts == IF max_records # PyNone THEN SliceTo(all_texts, max_records.v) ELSE all_texts
        article_ids == IF max_records # PyNone THEN SliceTo(all_ids, max_records.v) ELSE all_ids
        people_lists == extract_people_spacy(texts, DEFAULT_BATCH_SPACY)
        polarity_list == score_sentiment(texts, DEFAULT_BATCH_SPACY)
    IN [ret |-> Explode(article_ids, people_lists.ret, polarity_list.ret),
        lib |-> people_lists.lib \o polarity_list.lib]

\* the collecting loop of the Transformers version, with its break
RECURSIVE CollectLoop(_, _, _, _, _)
CollectLoop(arts, text_key, max_records, i, acc) ==
    IF i >= Len(arts) THEN acc
    ELSE IF Truthy(Get(arts[i + 1], text_key))
    THEN LET acc2 == [texts |-> Append(acc.texts, arts[i + 1][text_key].v),
                      art_ids |-> Append(acc.art_ids, i)]
         IN IF max_records # PyNone /\ max_records.v # 0 /\ Len(acc2.texts) >= max_records.v
            THEN acc2
            ELSE CollectLoop(arts, text_key, max_records, i + 1, acc2)
    ELSE CollectLoop(arts, text_key, max_records, i + 1, acc)

build_person_sentiment_df_hf(arts, text_key, max_records) ==
    LET got == CollectLoop(arts, text_key, max_records, 0, [texts |-> <<>>, art_ids |-> <<>>])
        people_per_article == extract_people_hf(got.texts, DEFAULT_BATCH_HF)
        sentiment_per_article ==
            extract_sentiment(got.texts, DEFAULT_BATCH_HF, DEFAULT_MAX_LEN, DEFAULT_STRIDE)
    IN [ret |-> Explode(got.art_ids, people_per_article.ret, sentiment_per_article.ret),
        lib |-> people_per_article.lib \o sentiment_per_article.lib]

-----------------------------------------------------------------------------
(* Calls of the NLP notebook *)


\* the str texts among the articles, the argument of the list functions
StrTexts(arts) ==
    LET IsStr(article) == Get(article, TEXT_KEY).pytype = "str"
        kept == SelectSeq(arts, IsStr)
    IN [i \in DOMAIN kept |-> kept[i][TEXT_KEY].v]

CountTokensPipe ==
    \E batch_size \in 1..MaxBatch :
        LET r == count_tokens_pipe(articles, batch_size)
        IN /\ call = NoCall
           /\ call' = [fn |-> "count_tokens_pipe", batch_size |-> batch_size, ret |-> r.ret]
           /\ libcalls' = r.lib
           /\ UNCHANGED <<articles, long_text, kernelvars, wardvars, geovars>>

ExtractPeopleSpacy ==
    \E batch_size \in 1..MaxBatch :
        LET texts == StrTexts(articles)
            r == extract_people_spacy(texts, batch_size)
        IN /\ call = NoCall
           /\ call' = [fn |-> "extract_people_spacy", texts |-> texts,
                       batch_size |-> batch_size, ret |-> r.ret]
           /\ libcalls' = r.lib
           /\ UNCHANGED <<articles, long_text, kernelvars, wardvars, geovars>>

ScoreSentiment ==
    \E batch_size \in 1..MaxBatch :
        LET texts == StrTexts(articles)
            r == score_sentiment(texts, batch_size)
        IN /\ call = NoCall
           /\ call' = [fn |-> "score_sentiment", texts |-> texts,
                       batch_size |-> batch_size, ret |-> r.ret]
           /\ libcalls' = r.lib
           /\ UNCHANGED <<articles, long_text, kernelvars, wardvars, geovars>>

MaxRecordsChoices == {PyNone} \cup {PyInt(k) : k \in -1..(MaxArticles + 1)}

BuildPersonSentimentDfSpacy ==
    \E max_records \in MaxRecordsChoices :
        LET r == build_person_sentiment_df_spacy(articles, TEXT_KEY, max_records)
        IN /\ call = NoCall
           /\ call' = [fn |-> "build_person_sentiment_df_spacy",
                       max_records |-> max_records, ret |-> r.ret]
           /\ libcalls' = r.lib
           /\ UNCHANGED <<articles, long_text, kernelvars, wardvars, geovars>>

ExtractPeopleHF ==
    \E batch_size \in 1..MaxBatch :
        LET texts == StrTexts(articles)
            r == extract_people_hf(texts, batch_size)
        IN /\ call = NoCall
           /\ call' = [fn |-> "extract_people_hf", texts |-> texts,
                       batch_size |-> batch_size, ret |-> r.ret]
           /\ libcalls' = r.lib
           /\ UNCHANGED <<articles, long_text, kernelvars, wardvars, geovars>>

ExtractSentiment ==
    \E batch_size \in 1..MaxBatch :
        LET texts == StrTexts(articles)
            r == extract_sentiment(texts, batch_size, DEFAULT_MAX_LEN, DEFAULT_STRIDE)
        IN /\ call = NoCall
           /\ call' = [fn |-> "extract_sentiment", texts |-> texts,
                       batch_size |-> batch_size, ret |-> r.ret]
           /\ libcalls' = r.lib
           /\ UNCHANGED <<articles, long_text, kernelvars, wardvars, geovars>>

BuildPersonSentimentDfHF ==
    \E max_records \in MaxRecordsChoices :
        LET r == build_person_sentiment_df_hf(articles, TEXT_KEY, max_records)
        IN /\ call = NoCall
           /\ call' = [fn |-> "build_person_sentiment_df_hf",
                       max_records |-> max_records, ret |-> r.ret]
           /\ libcalls' = r.lib
           /\ UNCHANGED <<articles, long_text, kernelvars, wardvars, geovars>>

InitNLP ==
    /\ long_text = <<>>
    /\ articles \in SeqsUpTo(ArticleSet, MaxArticles)
    /\ call = NoCall
    /\ libcalls = <<>>
    /\ KernelIdle
    /\ WardIdle
    /\ GeoIdle

\* a text of n tokens with positive, negative and plain words
LongText(n) ==
    [i \in 1..n |-> IF i % 3 = 1 THEN "love" ELSE IF i % 5 = 0 THEN "terrible" ELSE "the"]

MaxLenChoices == {DEFAULT_MAX_LEN, DEFAULT_MAX_LEN \div 2, DEFAULT_MAX_LEN + DEFAULT_STRIDE}
StrideChoices == {0, DEFAULT_STRIDE, DEFAULT_MAX_LEN \div 2 - NUM_SPECIAL_TOKENS, 300}

ScoreLongText ==
    \E max_len \in MaxLenChoices, stride \in StrideChoices :
        LET r == score_long_text(long_text, max_len, stride, DEFAULT_BATCH_HF)
        IN /\ call = NoCall
           /\ call' = [fn |-> "score_long_text", max_len |-> max_len, stride |-> stride,
                       ret |-> r.ret, ranges |-> r.ranges, inputs |-> r.inputs]
           /\ libcalls' = r.lib
           /\ UNCHANGED <<articles, long_text, kernelvars, wardvars, geovars>>

InitWindows ==
    /\ long_text \in {LongText(n) : n \in 0..MaxTokens}
    /\ articles = <<>>
    /\ call = NoCall
    /\ libcalls = <<>>
    /\ KernelIdle
    /\ WardIdle
    /\ GeoIdle

NextWindows == ScoreLongText

SpecWindows == InitWindows /\ [][NextWindows]_vars

NextNLP ==
    \/ CountTokensPipe
    \/ ExtractPeopleSpacy
    \/ ScoreSentiment
    \/ BuildPersonSentimentDfSpacy
    \/ ExtractPeopleHF
    \/ ExtractSentiment
    \/ BuildPersonSentimentDfHF

SpecNLP == InitNLP /\ [][NextNLP]_vars

-----------------------------------------------------------------------------
(* The notebooks as sequences of code cells: the global names each cell    *)
(* reads when it runs (late-bound names of the functions it calls          *)
(* included) and the global names it binds.                                *)

Cell(id, reads, writes) == [id |-> id, reads |-> reads, writes |-> writes]

NlpCells == <<
    Cell("e0aab28c", {}, {}),
    Cell("08e78213", {}, {}),
    Cell("b38f2524", {}, {"spacy", "nlp"}),
    Cell("4964f2f0", {"nlp"}, {"document"}),
    Cell("12ec9890", {"document"}, {"token"}),
    Cell("654555d6", {"nlp"}, {"lemmatize_sentence"}),
    Cell("16d613e6", {"nlp"}, {"pos_tags"}),
    Cell("55cc7a95", {}, {}),
    Cell("c802b225", {}, {"load_dataset", "download_percent", "ds", "i", "article"}),
    Cell("fec48106", {"nlp", "ds"}, {"Counter", "tqdm", "count_tokens_pipe", "token_counts"}),
    Cell("291345c1", {"token_counts"}, {"token", "count"}),
    Cell("7ca42264", {}, {}),
    Cell("fa561039", {"nlp"}, {"SpacyTextBlob"}),
    Cell("b394ca9c", {"nlp", "tqdm"}, {"extract_people"}),
    Cell("d4881703", {"nlp", "tqdm"}, {"score_sentiment"}),
    Cell("2e3cac7b", {}, {"pd", "build_person_sentiment_df"}),
    Cell("e81ebc37", {"build_person_sentiment_df", "ds", "extract_people", "score_sentiment",
                      "pd", "tqdm", "nlp"}, {"people"}),
    Cell("58a6a42a", {"people"}, {}),
    Cell("c710103a", {}, {}),
    Cell("d9fa297c", {}, {"pipeline", "tqdm", "ner_pipeline", "extract_people", "docs"}),
    Cell("32dc1917", {"pipeline", "tqdm"},
         {"np", "sentiment_pipeline", "_score_long_text", "extract_sentiment"}),
    Cell("3e6f344c", {"ds", "extract_people", "extract_sentiment", "_score_long_text", "pd",
                      "ner_pipeline", "sentiment_pipeline", "tqdm", "np"},
         {"build_person_sentiment_df", "people"}),
    Cell("fc5dd7c0", {"people"}, {}) >>

GeoCells == <<
    Cell("fbc9851e", {}, {}),
    Cell("VHE0Tf48-Knh", {}, {"output"}),
    Cell("e6458b06", {},
         {"requests", "base_url", "datasets", "resource_number", "file_type", "dataset",
          "res_num", "f_type", "response", "resource", "data_response", "file"}),
    Cell("e0326562", {}, {"pd", "gpd", "service_requests", "to_keep"}),
    Cell("8aaf489f", {"pd"}, {"rentals", "to_keep"}),
    Cell("55a4710e", {"gpd"}, {"wards", "to_keep"}),
    Cell("1335685d", {"wards"}, {"plt", "x", "y", "label"}),
    Cell("4f917bf3", {"service_requests"}, {"agg_311"}),
    Cell("13e321f8", {"rentals"}, {"agg_str"}),
    Cell("bb0aff4f", {"wards", "agg_311", "agg_str"}, {"gdf_combined"}),
    Cell("8a7c3f0a", {"gdf_combined", "plt"}, {}),
    Cell("6ff59a07", {"gdf_combined"}, {"folium", "cm", "vmin", "vmax", "colormap", "m"}),
    Cell("6c7c1942", {"gdf_combined"},
         {"train_test_split", "RandomForestRegressor", "r2_score", "root_mean_squared_error",
          "tqdm", "numeric_df", "str_cols", "X", "target_cols"}),
    Cell("84f8b356", {}, {"rf_params"}),
    Cell("3e0b2c8b", {"target_cols", "tqdm", "numeric_df", "X", "train_test_split",
                      "RandomForestRegressor", "rf_params", "r2_score",
                      "root_mean_squared_error", "pd"},
         {"results", "importances", "target", "y", "X_train", "X_test", "y_train", "y_test",
          "rf", "y_pred", "r2", "rmse", "imp"}),
    Cell("6790a61a", {"pd", "results"}, {"results_df"}),
    Cell("5cc65152", {"numeric_df", "str_cols"},
         {"show", "ExplainableBoostingRegressor", "y", "X", "ebm"}),
    Cell("4095674e", {"show", "ebm", "X", "y"}, {}),
    Cell("ebde0967", {"requests", "gpd"},
         {"zipfile", "fsa_boundaries_url", "response", "file", "zip_ref", "fsa_boundaries"}),
    Cell("1cc731dc", {"fsa_boundaries"}, {}),
    Cell("5007d61d", {"fsa_boundaries"}, {"fsa_boundaries"}),
    Cell("251f1784", {"fsa_boundaries"}, {}),
    Cell("9f52f884", {"fsa_boundaries", "gdf_combined", "gpd", "pd", "cm", "folium"},
         {"fsa_boundaries", "ward_fsa", "ward_area", "numeric_cols", "apportioned",
          "fsa_aggregated", "fsa_map", "column", "vmin", "vmax", "cmap", "m"}),
    Cell("778c30f8", {"service_requests"}, {"agg_311"}),
    Cell("b998d4af", {"rentals"}, {"agg_str"}),
    Cell("01ec7755", {"agg_311", "agg_str"}, {"agg_311", "agg_str"}),
    Cell("dccfc3ee", {"fsa_boundaries", "agg_311", "agg_str", "cm", "folium"},
         {"gdf_fsa", "vmin", "vmax", "colormap", "m_fsa"}),
    Cell("rLe7P-K391Ae", {}, {}) >>

Notebooks == {"nlp", "geo"}

Cells(nbk) == IF nbk = "nlp" THEN NlpCells ELSE GeoCells

CellReads(nbk, c) == Cells(nbk)[c].reads

\* a last cell that imports pandas once more
CellWritesReimport(nbk, c) ==
    IF c = Len(Cells(nbk)) - 1 THEN Cells(nbk)[c].writes \cup {"pd"} ELSE Cells(nbk)[c].writes

CellWrites(nbk, c) == Cells(nbk)[c].writes

\* the global names of a notebook
Names(nbk) ==
    UNION { CellReads(nbk, c) \cup CellWrites(nbk, c) : c \in DOMAIN Cells(nbk) }

\* the in-process library objects reused across calls
LibraryObjects == {"nlp", "ner_pipeline", "sentiment_pipeline"}

\* running cell c: its assignments, imports and defs rebind its names
RunCell(c) ==
    /\ binding' = [n \in DOMAIN binding |-> IF n \in CellWrites(nb, c) THEN c ELSE binding[n]]
    /\ last' = c

\* the next cell in top-to-bottom order
RunNext ==
    /\ pc < Len(Cells(nb))
    /\ RunCell(pc + 1)
    /\ pc' = pc + 1
    /\ UNCHANGED <<nb, reruns, nlpvars, wardvars, geovars>>

\* a cell that already ran is executed again
Rerun ==
    /\ reruns < MaxReruns
    /\ \E c \in 1..pc : RunCell(c)
    /\ reruns' = reruns + 1
    /\ UNCHANGED <<nb, pc, nlpvars, wardvars, geovars>>

InitCells ==
    /\ nb \in Notebooks
    /\ pc = 0
    /\ binding = [n \in Names(nb) |-> 0]
    /\ last = 0
    /\ reruns = 0
    /\ NlpIdle
    /\ WardIdle
    /\ GeoIdle

NextCells == RunNext \/ Rerun

SpecCells == InitCells /\ [][NextCells]_vars

-----------------------------------------------------------------------------
(* Cleaning of the "Ward" column: str.extract(r'([^\d]+)\s*\((\d+)\)')      *)

\* the characters of a ward value: a letter, a non-alphabetic character of
\* a name, a blank, the parentheses and a digit
WardChars == {"a", ".", " ", "(", ")", "1"}

Digits == <<"0", "1", "2", "3", "4", "5", "6", "7", "8", "9">>

IsDigit(c) == \E d \in DOMAIN Digits : Digits[d] = c

\* w[from..to] is in [^\d]*, \s*, \d* respectively
AllNonDigits(w, from, to) == \A j \in from..to : ~IsDigit(w[j])

AllSpaces(w, from, to) == \A j \in from..to : IsSpace(w[j])

AllDigits(w, from, to) == \A j \in from..to : IsDigit(w[j])

\* the ways the pattern matches w from position s: <<e1, e2, d2>> with
\*   w[s..e1]      the group ([^\d]+),
\*   w[e1+1..e2]   the blanks \s*,
\*   w[e2+1]       the opening parenthesis,
\*   w[e2+2..d2]   the group (\d+),
\*   w[d2+1]       the closing parenthesis
MatchesAt(w, s) ==
    LET Group1 == {e1 \in s..Len(w) : AllNonDigits(w, s, e1)}
        Blanks(e1) == {e2 \in e1..(Len(w) - 1) :
                         AllSpaces(w, e1 + 1, e2) /\ w[e2 + 1] = "("}
        Group2(e2) == {d2 \in (e2 + 2)..(Len(w) - 1) :
                         AllDigits(w, e2 + 2, d2) /\ w[d2 + 1] = ")"}
    IN UNION { UNION { { <<e1, e2, d2>> : d2 \in Group2(e2) } : e2 \in Blanks(e1) }
               : e1 \in Group1 }

\* a backtracking matcher tries the longer repetition first, the earlier
\* quantifier taking precedence
Prefers(m1, m2) ==
    \/ m1[1] > m2[1]
    \/ m1[1] = m2[1] /\ m1[2] > m2[2]
    \/ m1[1] = m2[1] /\ m1[2] = m2[2] /\ m1[3] >= m2[3]

NaNPair == [state |-> "nan", name |-> <<>>, number |-> <<>>]

\* the match a backtracking matcher finds first among `matches`
BestMatch(matches) == CHOOSE m \in matches : \A o \in matches : Prefers(m, o)

\* the groups of the match m of w that starts at s
Groups(w, s, m) ==
    [state |-> "match", name |-> SubSeq(w, s, m[1]), number |-> SubSeq(w, m[2] + 2, m[3])]

\* the match that starts at s
MatchAt(w, s) == Groups(w, s, BestMatch(MatchesAt(w, s)))

\* re.search: the match at the leftmost of the positions `starts`
Search(w, starts) ==
    IF starts = {} THEN NaNPair
    ELSE MatchAt(w, CHOOSE s \in starts : \A t \in starts : s <= t)

\* Series.str.extract: the groups of the first match (re.search), NaN
\* in both columns when there is none
StrExtract(w) == Search(w, {s \in 1..Len(w) : MatchesAt(w, s) # {}})

ExtractWard ==
    /\ extracted.state = "pending"
    /\ extracted' = StrExtract(ward)
    /\ UNCHANGED <<ward, nlpvars, kernelvars, geovars>>

InitWard ==
    /\ ward \in SeqsUpTo(WardChars, MaxWardLen)
    /\ extracted = [state |-> "pending", name |-> <<>>, number |-> <<>>]
    /\ NlpIdle
    /\ KernelIdle
    /\ GeoIdle

NextWard == ExtractWard

SpecWard == InitWard /\ [][NextWard]_vars

-----------------------------------------------------------------------------
(* The ward-level pipeline of the geospatial notebook *)

\* a numeric cell of a DataFrame: a number or NaN
Num(n) == [nan |-> FALSE, v |-> n]
NaN == [nan |-> TRUE, v |-> 0]

\* a missing value of a text column
NaNStr == "<NaN>"

\* values of the "Ward" column: two wards and a value without a number
RawWardValues ==
    { <<"a", " ", "(", "1", ")">>, <<"a", ".", " ", "(", "2", ")">>, <<"a", ".">> }

RequestTypes == {"Noise", "Litter", NaNStr}
PropertyTypes == {"Apartment", "House", NaNStr}

\* rows of 311-service-requests-customer-initiated.zip
RawRequestRows == [Ward : RawWardValues, service_request_type : RequestTypes]

\* rows of short-term-rentals-registration.csv
RawRentalRows ==
    [ward_number : {Num(1), Num(2), NaN}, ward_name : {"a"}, property_type : PropertyTypes]
    \cup {[ward_number |-> Num(1), ward_name |-> NaNStr, property_type |-> "Apartment"]}

\* rows of city-wards.geojson
RawWardRows ==
    [AREA_SHORT_CODE : {"1", "3"}, AREA_NAME : {"a"}]
    \cup {[AREA_SHORT_CODE |-> "3", AREA_NAME |-> NaNStr]}

\* int() of a digit string
RECURSIVE ToInt(_)
ToInt(digits) ==
    IF digits = <<>> THEN 0
    ELSE 10 * ToInt(SubSeq(digits, 1, Len(digits) - 1))
         + ((CHOOSE d \in DOMAIN Digits : Digits[d] = digits[Len(digits)]) - 1)

\* frames[name] = df
Bind(name, df) == [n \in DOMAIN frames \cup {name} |-> IF n = name THEN df ELSE frames[n]]

\* ascending order of a set of integers
RECURSIVE SortedSeq(_)
SortedSeq(S) ==
    IF S = {} THEN <<>>
    ELSE LET least == CHOOSE x \in S : \A y \in S : x <= y
         IN <<least>> \o SortedSeq(S \ {least})

\* cell e0326562: read the requests, split "Ward", drop the rows without
\* name or number, make the number an integer
LoadServiceRequests ==
    /\ gpc = 0
    /\ \E kept \in {SelectSeq([i \in DOMAIN files.requests |->
                                   [ext |-> StrExtract(files.requests[i].Ward),
                                    service_request_type |->
                                        files.requests[i].service_request_type]],
                               LAMBDA r : r.ext.state = "match")} :
          frames' = Bind("service_requests",
              [i \in DOMAIN kept |->
                  [ward_name |-> kept[i].ext.name,
                   ward_number |-> ToInt(kept[i].ext.number),
                   service_request_type |-> kept[i].service_request_type]])
    /\ gpc' = 1
    /\ UNCHANGED <<files, nlpvars, kernelvars, wardvars, netvars>>

\* cell 8aaf489f: read the rentals; astype(int) raises on a missing ward
\* number, before dropna could remove the row; dropna then removes the rows
\* without a ward name
LoadRentals ==
    /\ gpc = 1
    /\ IF \E i \in DOMAIN files.rentals : files.rentals[i].ward_number.nan
       THEN /\ gpc' = -1
            /\ UNCHANGED frames
       ELSE /\ gpc' = 2
            /\ \E kept \in {SelectSeq(files.rentals, LAMBDA r : r.ward_name # NaNStr)} :
                  frames' = Bind("rentals",
                      [i \in DOMAIN kept |->
                          [ward_number |-> kept[i].ward_number.v,
                           ward_name |-> kept[i].ward_name,
                           property_type |-> kept[i].property_type]])
    /\ UNCHANGED <<files, nlpvars, kernelvars, wardvars, netvars>>

\* cell 55a4710e: read the wards, make the short code an integer, drop the
\* rows without a name
LoadWards ==
    /\ gpc = 2
    /\ \E kept \in {SelectSeq(files.wards, LAMBDA r : r.AREA_NAME # NaNStr)} :
          frames' = Bind("wards",
              [columns |-> {},
               rows |-> [i \in DOMAIN kept |->
                           [ward_number |-> ToInt(<<kept[i].AREA_SHORT_CODE>>),
                            cells |-> <<>>]]])
    /\ gpc' = 3
    /\ UNCHANGED <<files, nlpvars, kernelvars, wardvars, netvars>>

\* a pivot that counts the rows of a ward whatever their type
GroupSizeUnstackByWard(pairs, fill_value, prefix) ==
    LET Known(p) == p[2] # NaNStr
        valid == SelectSeq(pairs, Known)
        keys == {valid[i][1] : i \in DOMAIN valid}
        types == {valid[i][2] : i \in DOMAIN valid}
        Size(k) == Cardinality({i \in DOMAIN valid : valid[i][1] = k})
        index == SortedSeq(keys)
    IN [columns |-> {<<prefix, t>> : t \in types},
        rows |-> [r \in DOMAIN index |->
                    [ward_number |-> index[r],
                     cells |-> [c \in {<<prefix, t>> : t \in types} |-> Num(Size(index[r]))]]]]

\* .groupby([key, type]).size().unstack(fill_value=...).add_prefix(prefix)
\* .reset_index() over <<key, type>> pairs; groupby drops the NaN types
GroupSizeUnstack(pairs, fill_value, prefix) ==
    LET Known(p) == p[2] # NaNStr
        valid == SelectSeq(pairs, Known)
        keys == {valid[i][1] : i \in DOMAIN valid}
        types == {valid[i][2] : i \in DOMAIN valid}
        Size(k, t) == Cardinality({i \in DOMAIN valid : valid[i] = <<k, t>>})
        index == SortedSeq(keys)
    IN [columns |-> {<<prefix, t>> : t \in types},
        rows |-> [r \in DOMAIN index |->
                    [ward_number |-> index[r],
                     cells |-> [c \in {<<prefix, t>> : t \in types} |->
                                  IF Size(index[r], c[2]) > 0
                                  THEN Num(Size(index[r], c[2]))
                                  ELSE Num(fill_value)]]]]

\* cell 4f917bf3
Agg311 ==
    /\ gpc = 3
    /\ LET sr == frames["service_requests"]
       IN frames' = Bind("agg_311",
              GroupSizeUnstack([i \in DOMAIN sr |-> <<sr[i].ward_number, sr[i].service_request_type>>],
                               0, "311_"))
    /\ gpc' = 4
    /\ UNCHANGED <<files, nlpvars, kernelvars, wardvars, netvars>>

\* cell 13e321f8
AggStr ==
    /\ gpc = 4
    /\ LET r == frames["rentals"]
       IN frames' = Bind("agg_str",
              GroupSizeUnstack([i \in DOMAIN r |-> <<r[i].ward_number, r[i].property_type>>],
                               0, "STR_"))
    /\ gpc' = 5
    /\ UNCHANGED <<files, nlpvars, kernelvars, wardvars, netvars>>

\* the rows one left row gives in a merge on 'Ward Number'
MergeRow(l, right, how) ==
    LET SameWard(r) == r.ward_number = l.ward_number
        matches == SelectSeq(right.rows, SameWard)
        columns == DOMAIN l.cells \cup right.columns
    IN IF matches = <<>>
       THEN IF how = "left"
            THEN << [ward_number |-> l.ward_number,
                     cells |-> [c \in columns |-> IF c \in DOMAIN l.cells THEN l.cells[c] ELSE NaN]] >>
            ELSE <<>>
       ELSE [j \in DOMAIN matches |->
                [ward_number |-> l.ward_number,
                 cells |-> [c \in columns |->
                              IF c \in DOMAIN l.cells THEN l.cells[c] ELSE matches[j].cells[c]]]]

\* an inner merge, whatever `how` says
MergeInner(left, right, how) ==
    [columns |-> left.columns \cup right.columns,
     rows |-> Flatten([i \in DOMAIN left.rows |-> MergeRow(left.rows[i], right, "inner")])]

\* left.merge(right, on='Ward Number', how=how)
Merge(left, right, how) ==
    [columns |-> left.columns \cup right.columns,
     rows |-> Flatten([i \in DOMAIN left.rows |-> MergeRow(left.rows[i], right, how)])]

\* df.fillna(value)
FillNa(df, value) ==
    [columns |-> df.columns,
     rows |-> [i \in DOMAIN df.rows |->
                 [ward_number |-> df.rows[i].ward_number,
                  cells |-> [c \in DOMAIN df.rows[i].cells |->
                               IF df.rows[i].cells[c].nan THEN Num(value)
                               ELSE df.rows[i].cells[c]]]]]

\* cell bb0aff4f
Combine ==
    /\ gpc = 5
    /\ frames' = Bind("gdf_combined",
           FillNa(Merge(Merge(frames["wards"], frames["agg_311"], "left"),
                        frames["agg_str"], "left"), 0))
    /\ gpc' = 6
    /\ UNCHANGED <<files, nlpvars, kernelvars, wardvars, netvars>>

InitGeo ==
    /\ files \in [requests : SeqsUpTo(RawRequestRows, MaxRequests),
                  rentals : SeqsUpTo(RawRentalRows, MaxRentals),
                  wards : SeqsUpTo(RawWardRows, MaxWards)]
    /\ frames = <<>>
    /\ gpc = 0
    /\ NetIdle
    /\ NlpIdle
    /\ KernelIdle
    /\ WardIdle

NextGeo ==
    \/ LoadServiceRequests
    \/ LoadRentals
    \/ LoadWards
    \/ Agg311
    \/ AggStr
    \/ Combine

SpecGeo == InitGeo /\ [][NextGeo]_vars

-----------------------------------------------------------------------------
(* The ward-by-FSA apportioning of the geospatial notebook *)

\* The plane is a finite grid; a polygon is the non-empty set of the grid
\* cells it covers, and cell c has area c in the CRS of gdf_combined.
Polygons == (SUBSET (1..GridCells)) \ {{}}

RECURSIVE Area(_)
Area(geometry) ==
    IF geometry = {} THEN 0
    ELSE LET c == CHOOSE c \in geometry : TRUE
         IN c + Area(geometry \ {c})

\* a quotient of two floats, kept exact
Frac(num, den) == [num |-> num, den |-> den]

FracAdd(a, b) == Frac(a.num * b.den + b.num * a.den, a.den * b.den)

FracLeq(a, b) == a.num * b.den <= b.num * a.den

FracEq(a, b) == a.num * b.den = b.num * a.den

RECURSIVE FracSum(_)
FracSum(fs) == IF fs = <<>> THEN Frac(0, 1) ELSE FracAdd(Head(fs), FracSum(Tail(fs)))

\* the '311_Noise' count every ward of gdf_combined carries here
NoiseCount == 2

\* gdf_combined when cell 9f52f884 runs: wards 1..n, each with a polygon
OverlayWards(geoms) ==
    [crs |-> "EPSG:4326",
     rows |-> [i \in DOMAIN geoms |->
                 [ward_number |-> i, geometry |-> geoms[i],
                  cells |-> [c \in {<<"311_", "Noise">>} |-> Num(NoiseCount)]]]]

\* fsa_boundaries as read from lfsa000a21a_e.shp: row i has the code
\* <letter, i> and a province name
FsaFile(rows) ==
    [crs |-> "EPSG:3347",
     rows |-> [i \in DOMAIN rows |->
                 [CFSAUID |-> <<rows[i].letter, Digits[i + 1]>>,
                  PRNAME |-> "Ontario",
                  geometry |-> rows[i].geometry]]]

\* str.startswith
StartsWith(str, prefix) ==
    /\ Len(str) >= Len(prefix)
    /\ SubSeq(str, 1, Len(prefix)) = prefix

\* cell 5007d61d: keep the FSAs of Ontario whose code starts with "M"
FilterFsa ==
    /\ gpc = 10
    /\ LET fsa == frames["fsa_boundaries"]
       IN frames' = Bind("fsa_boundaries",
              [crs |-> fsa.crs,
               rows |-> SelectSeq(fsa.rows,
                            LAMBDA r : r.PRNAME = "Ontario" /\ StartsWith(r.CFSAUID, <<"M">>))])
    /\ gpc' = 11
    /\ UNCHANGED <<files, nlpvars, kernelvars, wardvars, netvars>>

\* the overlaps of one ward with the FSAs, in the order of the FSAs
OverlayRow(w, fsa) ==
    LET Meets(f) == w.geometry \cap f.geometry # {}
        met == SelectSeq(fsa, Meets)
    IN [j \in DOMAIN met |->
          [ward_number |-> w.ward_number, cells |-> w.cells,
           CFSAUID |-> met[j].CFSAUID,
           geometry |-> w.geometry \cap met[j].geometry]]

\* gpd.overlay(left, right, how="intersection")
Overlay(left, right) ==
    [crs |-> left.crs,
     rows |-> Flatten([i \in DOMAIN left.rows |-> OverlayRow(left.rows[i], right.rows)])]

\* cell 9f52f884, steps 1 and 2: to_crs, overlay, area_overlap
OverlayWardFsa ==
    /\ gpc = 11
    /\ \E fsa \in {[crs |-> frames["gdf_combined"].crs, rows |-> frames["fsa_boundaries"].rows]} :
       \E ward_fsa \in {Overlay(frames["gdf_combined"], fsa)} :
          frames' = [n \in DOMAIN frames \cup {"ward_fsa"} |->
                       IF n = "fsa_boundaries" THEN fsa
                       ELSE IF n = "ward_fsa"
                       THEN [crs |-> ward_fsa.crs,
                             rows |-> [i \in DOMAIN ward_fsa.rows |->
                                         [ward_number |-> ward_fsa.rows[i].ward_number,
                                          cells |-> ward_fsa.rows[i].cells,
                                          CFSAUID |-> ward_fsa.rows[i].CFSAUID,
                                          geometry |-> ward_fsa.rows[i].geometry,
                                          area_overlap |-> Area(ward_fsa.rows[i].geometry)]]]
                       ELSE frames[n]]
    /\ gpc' = 12
    /\ UNCHANGED <<files, nlpvars, kernelvars, wardvars, netvars>>

\* ward_area of the rows of gdf_combined with the ward number of row r
WardAreas(r) ==
    LET SameWard(w) == w.ward_number = r.ward_number
        matches == SelectSeq(frames["gdf_combined"].rows, SameWard)
    IN [j \in DOMAIN matches |-> Area(matches[j].geometry)]

\* area_frac with the area of the overlap as the denominator
AreaFracOfOverlap(area_overlap, ward_area) == Frac(area_overlap, area_overlap)

\* ward_fsa["area_overlap"] / ward_fsa["ward_area"]
AreaFrac(area_overlap, ward_area) == Frac(area_overlap, ward_area)

\* cell 9f52f884, step 2: merge ward_area on 'Ward Number', area_frac
WardAreaFrac ==
    /\ gpc = 12
    /\ LET ward_fsa == frames["ward_fsa"]
       IN frames' = Bind("ward_fsa",
              [crs |-> ward_fsa.crs,
               rows |-> Flatten([i \in DOMAIN ward_fsa.rows |->
                          [j \in DOMAIN WardAreas(ward_fsa.rows[i]) |->
                             [ward_number |-> ward_fsa.rows[i].ward_number,
                              cells |-> ward_fsa.rows[i].cells,
                              CFSAUID |-> ward_fsa.rows[i].CFSAUID,
                              geometry |-> ward_fsa.rows[i].geometry,
                              area_overlap |-> ward_fsa.rows[i].area_overlap,
                              ward_area |-> WardAreas(ward_fsa.rows[i])[j],
                              area_frac |-> AreaFrac(ward_fsa.rows[i].area_overlap,
                                                     WardAreas(ward_fsa.rows[i])[j])]]])])
    /\ gpc' = 13
    /\ UNCHANGED <<files, nlpvars, kernelvars, wardvars, netvars>>

\* cell 9f52f884, step 3: every 311_*/STR_* column times area_frac, and
\* ward_fsa cut down to CFSAUID, geometry and the apportioned columns
Apportion ==
    /\ gpc = 13
    /\ LET ward_fsa == frames["ward_fsa"]
       IN frames' = Bind("ward_fsa",
              [crs |-> ward_fsa.crs,
               rows |-> [i \in DOMAIN ward_fsa.rows |->
                           [CFSAUID |-> ward_fsa.rows[i].CFSAUID,
                            geometry |-> ward_fsa.rows[i].geometry,
                            apportioned |->
                               [c \in DOMAIN ward_fsa.rows[i].cells |->
                                  Frac(ward_fsa.rows[i].cells[c].v * ward_fsa.rows[i].area_frac.num,
                                       ward_fsa.rows[i].area_frac.den)]]]])
    /\ gpc' = 14
    /\ UNCHANGED <<files, nlpvars, kernelvars, wardvars, netvars>>

\* .groupby("CFSAUID").sum(): one row per code, in the order of the codes,
\* which is the order of fsa_boundaries
GroupSum(ward_fsa, codes) ==
    LET Present(code) == \E i \in DOMAIN ward_fsa.rows : ward_fsa.rows[i].CFSAUID = code
        index == SelectSeq(codes, Present)
    IN [k \in DOMAIN index |->
          [CFSAUID |-> index[k],
           apportioned |->
              [c \in {<<"311_", "Noise">>} |->
                 FracSum([i \in DOMAIN SelectSeq(ward_fsa.rows, LAMBDA r : r.CFSAUID = index[k]) |->
                            SelectSeq(ward_fsa.rows, LAMBDA r : r.CFSAUID = index[k])[i].apportioned[c]])]]]

\* cell 9f52f884, step 4: fsa_aggregated and fsa_map (left merge, fillna(0))
AggregateFsa ==
    /\ gpc = 14
    /\ \E fsa_aggregated \in
           {GroupSum(frames["ward_fsa"],
                     [i \in DOMAIN frames["fsa_boundaries"].rows |->
                         frames["fsa_boundaries"].rows[i].CFSAUID])} :
          frames' = [n \in DOMAIN frames \cup {"fsa_aggregated", "fsa_map"} |->
              IF n = "fsa_aggregated" THEN fsa_aggregated
              ELSE IF n = "fsa_map"
              THEN [i \in DOMAIN frames["fsa_boundaries"].rows |->
                      LET f == frames["fsa_boundaries"].rows[i]
                          matches == SelectSeq(fsa_aggregated, LAMBDA a : a.CFSAUID = f.CFSAUID)
                      IN [CFSAUID |-> f.CFSAUID, geometry |-> f.geometry,
                          apportioned |-> IF matches = <<>>
                                          THEN [c \in {<<"311_", "Noise">>} |-> Frac(0, 1)]
                                          ELSE matches[1].apportioned]]
              ELSE frames[n]]
    /\ gpc' = 15
    /\ UNCHANGED <<files, nlpvars, kernelvars, wardvars, netvars>>

InitOverlay ==
    /\ files = <<>>
    /\ \E geoms \in SeqsUpTo(Polygons, MaxOverlayWards) :
       \E rows \in SeqsUpTo([letter : {"K", "M"}, geometry : Polygons], MaxFsa) :
          frames = [gdf_combined |-> OverlayWards(geoms), fsa_boundaries |-> FsaFile(rows)]
    /\ gpc = 10
    /\ NetIdle
    /\ NlpIdle
    /\ KernelIdle
    /\ WardIdle

NextOverlay ==
    \/ FilterFsa
    \/ OverlayWardFsa
    \/ WardAreaFrac
    \/ Apportion
    \/ AggregateFsa

SpecOverlay == InitOverlay /\ [][NextOverlay]_vars

-----------------------------------------------------------------------------
(* The downloads of the geospatial notebook and the files its cells read *)

base_url == "https://ckan0.cf.opendata.inter.prod-toronto.ca/api/3/action/package_show"

datasets ==
    <<"city-wards", "311-service-requests-customer-initiated", "short-term-rentals-registration">>

resource_number == <<11, 1, 1>>

file_type == <<"geojson", "zip", "csv">>

fsa_boundaries_url ==
    "https://www12.statcan.gc.ca/census-recensement/2021/geo/sip-pis/boundary-limites/files-fichiers/lfsa000a21a_e.zip"

\* the numbers of resources a dataset may list
ResourceCounts == {1, 2, 12}

\* zip with the file types moved on by one place
Zip3Rotated(a, b, c) ==
    [i \in 1..Min(Len(a), Min(Len(b), Len(c))) |-> <<a[i], b[i], c[(i % Len(c)) + 1]>>]

\* zip(a, b, c)
Zip3(a, b, c) == [i \in 1..Min(Len(a), Min(Len(b), Len(c))) |-> <<a[i], b[i], c[i]>>]

\* f"{dataset}.{f_type}": a file name is <<stem, extension>>
FileName(stem, f_type) == <<stem, f_type>>

\* the request of requests.get(base_url, params={"id": dataset})
MetadataUrl(dataset) == <<base_url, dataset>>

\* response['result']['resources'][res_num]['url']
ResourceUrl(dataset, res_num) == <<"resource", dataset, res_num>>

\* what a request can come to: a body of the expected kind, an error body,
\* or no response at all
Responses == {"ok", "error body", "ConnectionError"}

\* requests.get with a second request after an error body
RequestsGetRetry(url, response) ==
    IF response = "error body"
    THEN << [op |-> "GET", url |-> url, response |-> response],
            [op |-> "GET", url |-> url, response |-> response] >>
    ELSE << [op |-> "GET", url |-> url, response |-> response] >>

\* requests.get(url): one request, whatever comes back
RequestsGet(url, response) == << [op |-> "GET", url |-> url, response |-> response] >>

\* with open(name, "wb") as file: file.write(content)
WriteFile(name, content) == [n \in DOMAIN files \cup {name} |-> IF n = name THEN content ELSE files[n]]

\* cell e6458b06, line 83-85: the metadata request of one round of the loop;
\* .json() raises on an error body, the index on a list that is too short
GetMetadata ==
    /\ gpc = 20
    /\ loop.at = "metadata"
    /\ LET round == Zip3(datasets, resource_number, file_type)[loop.i]
       IN \E response \in Responses :
            /\ io' = io \o RequestsGet(MetadataUrl(round[1]), response)
            /\ IF response = "ok"
               THEN IF round[2] < web[round[1]]
                    THEN /\ frames' = [n \in DOMAIN frames \cup {"response", "resource"} |->
                                         IF n = "response" THEN [id |-> round[1]]
                                         ELSE IF n = "resource"
                                         THEN [url |-> ResourceUrl(round[1], round[2])]
                                         ELSE frames[n]]
                         /\ loop' = [loop EXCEPT !.at = "data"]
                         /\ gpc' = gpc
                    ELSE /\ frames' = Bind("response", [id |-> round[1]])
                         /\ gpc' = -1
                         /\ loop' = loop
               ELSE /\ gpc' = -1
                    /\ UNCHANGED <<frames, loop>>
    /\ UNCHANGED <<files, web, nlpvars, kernelvars, wardvars>>

\* cell e6458b06, line 88-90: the data request of the round and the file
GetData ==
    /\ gpc = 20
    /\ loop.at = "data"
    /\ LET rounds == Zip3(datasets, resource_number, file_type)
           round == rounds[loop.i]
       IN \E response \in Responses :
            IF response = "ConnectionError"
            THEN /\ io' = io \o RequestsGet(frames["resource"].url, response)
                 /\ gpc' = -1
                 /\ UNCHANGED <<files, frames, loop>>
            ELSE /\ io' = io \o RequestsGet(frames["resource"].url, response)
                          \o << [op |-> "write", name |-> FileName(round[1], round[3]),
                                 content |-> [url |-> frames["resource"].url, body |-> response]] >>
                 /\ files' = WriteFile(FileName(round[1], round[3]),
                                       [url |-> frames["resource"].url, body |-> response])
                 /\ frames' = Bind("data_response", [url |-> frames["resource"].url, body |-> response])
                 /\ IF loop.i = Len(rounds)
                    THEN loop' = [loop EXCEPT !.at = "done"] /\ gpc' = 21
                    ELSE loop' = [i |-> loop.i + 1, at |-> "metadata"] /\ gpc' = gpc
    /\ UNCHANGED <<web, nlpvars, kernelvars, wardvars>>

\* a cell that reads the local file `name`; a missing file and a file that
\* holds an error body make the reader raise
ReadLocal(name, at) ==
    /\ gpc = at
    /\ io' = Append(io, [op |-> "read", name |-> name, found |-> name \in DOMAIN files])
    /\ gpc' = IF name \in DOMAIN files /\ files[name].body = "ok" THEN at + 1 ELSE -1
    /\ UNCHANGED <<files, frames, web, loop, nlpvars, kernelvars, wardvars>>

\* cell e0326562, line 117
ReadServiceRequests == ReadLocal(<<"311-service-requests-customer-initiated", "zip">>, 21)

\* cell 8aaf489f, line 150
ReadRentals == ReadLocal(<<"short-term-rentals-registration", "csv">>, 22)

\* cell 55a4710e, line 178
ReadWards == ReadLocal(<<"city-wards", "geojson">>, 23)

\* cell ebde0967: the FSA archive is requested, written, opened and
\* unpacked, and the shapefile read
DownloadFsa ==
    /\ gpc = 24
    /\ \E response \in Responses :
         IF response = "ConnectionError"
         THEN /\ io' = io \o RequestsGet(<<fsa_boundaries_url>>, response)
              /\ gpc' = -1
              /\ UNCHANGED <<files, frames>>
         ELSE LET content == [url |-> <<fsa_boundaries_url>>, body |-> response]
                  zip == <<"fsa_boundaries", "zip">>
                  shp == <<"lfsa000a21a_e/lfsa000a21a_e", "shp">>
              IN /\ frames' = Bind("response", content)
                 /\ IF response = "ok"
                    THEN /\ io' = io \o RequestsGet(<<fsa_boundaries_url>>, response)
                                  \o << [op |-> "write", name |-> zip, content |-> content],
                                        [op |-> "read", name |-> zip, found |-> TRUE],
                                        [op |-> "write", name |-> shp, content |-> content],
                                        [op |-> "read", name |-> shp, found |-> TRUE] >>
                         /\ files' = [n \in DOMAIN files \cup {zip, shp} |->
                                        IF n \in {zip, shp} THEN content ELSE files[n]]
                         /\ gpc' = 25
                    ELSE /\ io' = io \o RequestsGet(<<fsa_boundaries_url>>, response)
                                  \o << [op |-> "write", name |-> zip, content |-> content],
                                        [op |-> "read", name |-> zip, found |-> TRUE] >>
                         /\ files' = WriteFile(zip, content)
                         /\ gpc' = -1
    /\ UNCHANGED <<web, loop, nlpvars, kernelvars, wardvars>>

InitDownload ==
    /\ web \in [{datasets[i] : i \in DOMAIN datasets} -> ResourceCounts]
    /\ io = <<>>
    /\ loop = [i |-> 1, at |-> "metadata"]
    /\ files = <<>>
    /\ frames = <<>>
    /\ gpc = 20
    /\ NlpIdle
    /\ KernelIdle
    /\ WardIdle

NextDownload ==
    \/ GetMetadata
    \/ GetData
    \/ ReadServiceRequests
    \/ ReadRentals
    \/ ReadWards
    \/ DownloadFsa

SpecDownload == InitDownload /\ [][NextDownload]_vars

-----------------------------------------------------------------------------
(* Vocabulary of the properties: library facts stated position by position *)

\* the elements of s at the positions of S, in increasing order of position
Pick(s, S) ==
    [k \in 1..Cardinality(S) |-> s[CHOOSE i \in S : Cardinality({j \in S : j <= i}) = k]]

\* the records of a frame whose article_id is id, in frame order
RecordsOf(frame, id) == Pick(frame, {k \in DOMAIN frame : frame[k].article_id = id})

\* the PERSON entity texts of a text, in document order
PersonTexts(txt) == Pick(txt, {j \in DOMAIN txt : Lex[txt[j]].label_ = "PERSON"})

\* a character string without its surrounding blanks
Trimmed(w) ==
    LET solid == {j \in DOMAIN w : w[j] # " "}
    IN IF solid = {} THEN <<>>
       ELSE SubSeq(w, CHOOSE a \in solid : \A j \in solid : a <= j,
                      CHOOSE b \in solid : \A j \in solid : b >= j)

\* the PER words of more than five characters of a text, trimmed, in order
PerWords(txt) ==
    LET at == {j \in DOMAIN txt : /\ Lex[txt[j]].entity_group = "PER"
                                   /\ Len(Trimmed(Lex[txt[j]].word)) > 5}
        picked == Pick(txt, at)
    IN [k \in DOMAIN picked |-> Trimmed(Lex[picked[k]].word)]

\* 0-based positions of the articles with a non-empty text
NonEmptyIds == {i \in 0..(Len(articles) - 1) : Truthy(Get(articles[i + 1], TEXT_KEY))}

TextOf(id) == articles[id + 1][TEXT_KEY].v

\* the frame pairs every name with the id and the sentiment of its own
\* article, has one record per name of each processed article, processes a
\* prefix of the non-empty articles, and all of them without max_records
FrameAligned(frame, max_records, NamesOf(_), SentimentOf(_)) ==
    /\ \A k \in DOMAIN frame :
          /\ frame[k].article_id \in NonEmptyIds
          /\ frame[k].score = SentimentOf(TextOf(frame[k].article_id))
    /\ \A id \in NonEmptyIds :
          LET mine == RecordsOf(frame, id)
              persons == [k \in DOMAIN mine |-> mine[k].person]
          IN \/ persons = NamesOf(TextOf(id))
             \/ /\ persons = <<>>
                /\ \A k \in DOMAIN frame : frame[k].article_id < id
                /\ max_records # PyNone
    /\ \A k \in DOMAIN frame : k > 1 => frame[k - 1].article_id <= frame[k].article_id

SpacySentiment(txt) == BlobPolarity(txt)
HFSentiment(txt) == score_long_text(txt, DEFAULT_MAX_LEN, DEFAULT_STRIDE, DEFAULT_BATCH_HF).ret

\* C1: build_person_sentiment_df (spaCy and Transformers versions) returns
\* one record per person name of each processed article; the record's
\* article_id is the article's position in `articles`, skipped articles
\* counted, and its polarity/score is the sentiment of that same article.
C1_FrameAligned ==
    /\ call.fn = "build_person_sentiment_df_spacy"
          => FrameAligned(call.ret, call.max_records, PersonTexts, SpacySentiment)
    /\ call.fn = "build_person_sentiment_df_hf"
          => FrameAligned(call.ret, call.max_records, PerWords, HFSentiment)

\* an article with persons follows one without text and one with another
\* sentiment, and its records are in the frame
C1_Witness ==
    /\ call.fn = "build_person_sentiment_df_spacy"
    /\ Len(articles) = 3
    /\ ~Truthy(Get(articles[1], TEXT_KEY))
    /\ Truthy(Get(articles[2], TEXT_KEY))
    /\ Truthy(Get(articles[3], TEXT_KEY))
    /\ BlobPolarity(TextOf(1)) # BlobPolarity(TextOf(2))
    /\ \E k \in DOMAIN call.ret : call.ret[k].article_id = 2

\* C2: the spaCy extract_people returns one list per text, the i-th being
\* the PERSON entity texts of texts[i] in document order, empty when the
\* text has none.
C2_PeoplePerText ==
    call.fn = "extract_people_spacy" =>
        /\ Len(call.ret) = Len(call.texts)
        /\ \A i \in DOMAIN call.texts : call.ret[i] = PersonTexts(call.texts[i])

C2_Witness ==
    /\ call.fn = "extract_people_spacy"
    /\ Len(call.texts) >= 2
    /\ \E i \in DOMAIN call.ret : call.ret[i] = <<>>
    /\ \E i \in DOMAIN call.ret : Len(call.ret[i]) >= 2

\* C3: score_sentiment returns one polarity per text, the i-th being the
\* polarity of texts[i], each within [-1, 1] (hundredths: [-100, 100]).
C3_PolarityPerText ==
    call.fn = "score_sentiment" =>
        /\ Len(call.ret) = Len(call.texts)
        /\ \A i \in DOMAIN call.texts :
              /\ call.ret[i] = BlobPolarity(call.texts[i])
              /\ call.ret[i] >= -100
              /\ call.ret[i] <= 100

C3_Witness ==
    /\ call.fn = "score_sentiment"
    /\ Len(call.ret) >= 2
    /\ \E i, j \in DOMAIN call.ret : call.ret[i] < 0 /\ call.ret[j] > 0

\* every lemma of the lexicon
Lemmas == {Lex[w].lemma_ : w \in Words}

\* the counted occurrences of a lemma: (article, token) positions
Occurrences(lemma) ==
    UNION { { <<a, j>> : j \in { j \in DOMAIN articles[a]["text"].v :
                              LET w == articles[a]["text"].v[j]
                              IN /\ Lex[w].lemma_ = lemma
                                 /\ ~Lex[w].is_stop
                                 /\ ~Lex[w].is_punct
                                 /\ \E c \in DOMAIN lemma : lemma[c] # " " } }
            : a \in { a \in DOMAIN articles : Get(articles[a], "text").pytype = "str" } }

\* C6: count_tokens_pipe counts, for every lemma, the tokens of the articles
\* with a text that have this lemma and are no stop word, no punctuation
\* and no blank lemma; forms of one word count under their base form and
\* the batch size does not matter.
C6_LemmaCounts ==
    call.fn = "count_tokens_pipe" =>
        /\ \A lemma \in Lemmas : CounterGet(call.ret, lemma) = Cardinality(Occurrences(lemma))
        /\ \A key \in DOMAIN call.ret : key \in Lemmas /\ call.ret[key] > 0

C6_Witness ==
    /\ call.fn = "count_tokens_pipe"
    /\ call.batch_size < Len(StrTexts(articles))
    /\ \E a \in DOMAIN articles : Get(articles[a], "text") = PyNone
    /\ CounterGet(call.ret, <<"r","u","n">>) >= 2
    /\ \E a \in DOMAIN articles : Get(articles[a], "text") = PyStr(T2)

BatchFns == {"count_tokens_pipe", "extract_people_spacy", "score_sentiment",
             "extract_people_hf", "extract_sentiment"}

\* C7 as stated: every function with a batch_size parameter hands the
\* caller's value unchanged to the library call.
C7_Original ==
    call.fn \in BatchFns =>
        \A k \in DOMAIN libcalls : libcalls[k].batch_size = call.batch_size

\* C7 amended: count_tokens_pipe, the spaCy extract_people and
\* score_sentiment make one library call with the caller's batch_size;
\* extract_sentiment makes one per text, each with the caller's batch_size;
\* the Transformers extract_people slices the texts itself and calls the
\* pipeline once per slice with batch_size = len(slice) <= batch_size.
C7_BatchSize ==
    /\ call.fn \in {"count_tokens_pipe", "extract_people_spacy", "score_sentiment"}
          => /\ Len(libcalls) = 1
             /\ libcalls[1].batch_size = call.batch_size
    /\ call.fn = "extract_sentiment"
          => /\ Len(libcalls) = Len(call.texts)
             /\ \A k \in DOMAIN libcalls : libcalls[k].batch_size = call.batch_size
    /\ call.fn = "extract_people_hf"
          => /\ Len(libcalls) = (Len(call.texts) + call.batch_size - 1) \div call.batch_size
             /\ SumSeq([k \in DOMAIN libcalls |-> libcalls[k].n]) = Len(call.texts)
             /\ \A k \in DOMAIN libcalls :
                   /\ libcalls[k].batch_size = libcalls[k].n
                   /\ libcalls[k].n <= call.batch_size
                   /\ k < Len(libcalls) => libcalls[k].n = call.batch_size

C7_Witness ==
    /\ call.fn = "extract_people_hf"
    /\ Len(libcalls) = 2
    /\ libcalls[2].batch_size < call.batch_size

C5_ReturnsPair ==
    call.fn = "score_long_text" => call.ret.pytype = "tuple"

\* C8 as stated: no cell changes a global binding (library objects aside)
\* that another cell reads.
C8_Original ==
    [][\A n \in DOMAIN binding \ LibraryObjects :
          (/\ binding[n] # 0
           /\ \E c \in DOMAIN Cells(nb) : c # last' /\ n \in CellReads(nb, c))
          => binding'[n] = binding[n]]_vars

\* the names that later cells bind again
Rebound(nbk) ==
    IF nbk = "nlp"
    THEN {"token", "tqdm", "extract_people", "build_person_sentiment_df", "people"}
    ELSE {"to_keep", "response", "file", "y", "X", "vmin", "vmax", "colormap", "m",
          "fsa_boundaries", "agg_311", "agg_str"}

\* C8 amended: the cells do share global bindings: token, tqdm,
\* extract_people, build_person_sentiment_df and people (NLP notebook) and
\* to_keep, response, file, y, X, vmin, vmax, colormap, m, fsa_boundaries,
\* agg_311 and agg_str (geospatial notebook) are bound again by later cells;
\* every other global name keeps its binding once it is bound, and in
\* top-to-bottom order every name a cell reads is bound when it runs.
C8_OtherBindingsStable ==
    [][/\ \A n \in DOMAIN binding \ Rebound(nb) : binding[n] # 0 => binding'[n] = binding[n]
       /\ \A n \in CellReads(nb, last') : binding'[n] # 0]_vars

\* a cell of the spaCy part is run again after the Transformers cell has
\* rebound extract_people, which it reads
C8_Witness ==
    /\ nb = "nlp"
    /\ last = 17
    /\ "extract_people" \in CellReads(nb, last)
    /\ binding["extract_people"] = 20

\* a name: letters and other non-digit characters, no parenthesis, no
\* blank at either end
IsWardName(name) ==
    /\ name # <<>>
    /\ \A j \in DOMAIN name : name[j] \in {"a", ".", " "}
    /\ name[1] # " "
    /\ name[Len(name)] # " "

\* C9 as stated: for a value "Ward Name (Number)" the split yields exactly
\* the name, without surrounding blanks or parenthesis, and the digits.
C9_ExactName ==
    extracted.state # "pending" =>
        \A k \in 1..Len(ward), d \in 1..Len(ward) :
            LET name == SubSeq(ward, 1, k)
                number == SubSeq(ward, k + 3, k + 2 + d)
            IN (/\ IsWardName(name)
                /\ Len(ward) = k + d + 3
                /\ ward[k + 1] = " "
                /\ ward[k + 2] = "("
                /\ \A j \in DOMAIN number : IsDigit(number[j])
                /\ ward[Len(ward)] = ")")
               => /\ extracted.state = "match"
                  /\ extracted.name = name
                  /\ extracted.number = number

\* the ward numbers with at least one counted row in a cleaned table
WardsCounted(rows, TypeField) ==
    {rows[i].ward_number : i \in {i \in DOMAIN rows : rows[i][TypeField] # NaNStr}}

\* C10: gdf_combined has exactly one row for every row of `wards`, in the
\* same order, and no other; after fillna(0) no cell is missing, and a ward
\* without service requests (short-term rentals) has 0 in every 311_*
\* (STR_*) column.
C10_LeftMergeKeepsWards ==
    gpc = 6 =>
        LET combined == frames["gdf_combined"]
            wards == frames["wards"]
        IN /\ Len(combined.rows) = Len(wards.rows)
           /\ combined.columns = frames["agg_311"].columns \cup frames["agg_str"].columns
           /\ \A i \in DOMAIN combined.rows :
                 LET row == combined.rows[i]
                 IN /\ row.ward_number = wards.rows[i].ward_number
                    /\ DOMAIN row.cells = combined.columns
                    /\ \A c \in combined.columns : ~row.cells[c].nan
                    /\ row.ward_number \notin
                           WardsCounted(frames["service_requests"], "service_request_type")
                       => \A c \in combined.columns : c[1] = "311_" => row.cells[c] = Num(0)
                    /\ row.ward_number \notin WardsCounted(frames["rentals"], "property_type")
                       => \A c \in combined.columns : c[1] = "STR_" => row.cells[c] = Num(0)

\* two wards, one with service requests and one with neither requests nor
\* rentals, while both kinds of columns exist
C10_Witness ==
    /\ gpc = 6
    /\ Len(frames["wards"].rows) = 2
    /\ \E c \in frames["gdf_combined"].columns : c[1] = "311_"
    /\ \E c \in frames["gdf_combined"].columns : c[1] = "STR_"
    /\ \E i \in DOMAIN frames["gdf_combined"].rows :
          \A c \in frames["gdf_combined"].columns : frames["gdf_combined"].rows[i].cells[c] = Num(0)
    /\ \E i \in DOMAIN frames["gdf_combined"].rows :
          \E c \in frames["gdf_combined"].columns : frames["gdf_combined"].rows[i].cells[c].v > 0

\* the number of rows of a cleaned table with ward number w and type t
CountRows(rows, TypeField, w, t) ==
    Cardinality({i \in DOMAIN rows : rows[i].ward_number = w /\ rows[i][TypeField] = t})

\* the rows of a cleaned table whose type is not missing
TypedRows(rows, TypeField) == {i \in DOMAIN rows : rows[i][TypeField] # NaNStr}

RECURSIVE SumCells(_, _)
SumCells(cells, columns) ==
    IF columns = {} THEN 0
    ELSE LET c == CHOOSE c \in columns : TRUE
         IN cells[c].v + SumCells(cells, columns \ {c})

\* the sum of all cells of a pivot table
TableSum(agg) == SumSeq([i \in DOMAIN agg.rows |-> SumCells(agg.rows[i].cells, agg.columns)])

\* every cell of the pivot table is the number of rows of its ward and type
\* (0 when there is none), and every ward and type with a row has a cell
CellsCount(agg, rows, TypeField, prefix) ==
    /\ \A r \in DOMAIN agg.rows : \A c \in agg.columns :
          /\ c[1] = prefix
          /\ agg.rows[r].cells[c] = Num(CountRows(rows, TypeField, agg.rows[r].ward_number, c[2]))
    /\ \A r1, r2 \in DOMAIN agg.rows :
          agg.rows[r1].ward_number = agg.rows[r2].ward_number => r1 = r2
    /\ \A i \in TypedRows(rows, TypeField) :
          /\ <<prefix, rows[i][TypeField]>> \in agg.columns
          /\ \E r \in DOMAIN agg.rows : agg.rows[r].ward_number = rows[i].ward_number

\* C11 as stated: the cells are the row counts, and the cells of each table
\* sum to the number of rows of its cleaned input.
C11_Original ==
    /\ gpc >= 4 =>
          /\ CellsCount(frames["agg_311"], frames["service_requests"],
                        "service_request_type", "311_")
          /\ TableSum(frames["agg_311"]) = Len(frames["service_requests"])
    /\ gpc >= 5 =>
          /\ CellsCount(frames["agg_str"], frames["rentals"], "property_type", "STR_")
          /\ TableSum(frames["agg_str"]) = Len(frames["rentals"])

\* C11: the cell in row w and column '311_<type>' of agg_311 is the number
\* of cleaned service-request rows of ward w and that type, likewise
\* 'STR_<property_type>' of agg_str for the rentals; a combination without
\* rows holds 0; the cells of each table sum to the number of rows of its
\* cleaned input whose type is not missing (groupby leaves the others out).
C11_CellsCountTypedRows ==
    /\ gpc >= 4 =>
          /\ CellsCount(frames["agg_311"], frames["service_requests"],
                        "service_request_type", "311_")
          /\ TableSum(frames["agg_311"])
                = Cardinality(TypedRows(frames["service_requests"], "service_request_type"))
    /\ gpc >= 5 =>
          /\ CellsCount(frames["agg_str"], frames["rentals"], "property_type", "STR_")
          /\ TableSum(frames["agg_str"])
                = Cardinality(TypedRows(frames["rentals"], "property_type"))

\* both tables are built; a service request without a type stands next to
\* one that is counted, and one rental is counted
C11_Witness ==
    /\ gpc >= 5
    /\ \E i \in DOMAIN frames["service_requests"] :
          frames["service_requests"][i].service_request_type = NaNStr
    /\ TableSum(frames["agg_311"]) = 1
    /\ TableSum(frames["agg_str"]) = 1

\* the area_frac values of the overlaps of ward w
FracsOfWard(w) ==
    LET OfWard(r) == r.ward_number = w.ward_number
        overlaps == SelectSeq(frames["ward_fsa"].rows, OfWard)
    IN [i \in DOMAIN overlaps |-> overlaps[i].area_frac]

\* no two retained FSA polygons overlap each other inside ward w
FsaDisjointIn(w) ==
    \A i, j \in DOMAIN frames["fsa_boundaries"].rows :
       i # j => w.geometry \cap frames["fsa_boundaries"].rows[i].geometry
                           \cap frames["fsa_boundaries"].rows[j].geometry = {}

\* the retained FSA polygons cover ward w
FsaCover(w) ==
    w.geometry \subseteq
       UNION {frames["fsa_boundaries"].rows[i].geometry : i \in DOMAIN frames["fsa_boundaries"].rows}

\* every overlap row is the intersection of its ward with one retained FSA,
\* area_frac is its area over the area of the whole ward, between 0 and 1,
\* and every ward and retained FSA that overlap have a row
FracOfWard ==
    /\ \A r \in DOMAIN frames["ward_fsa"].rows :
          LET row == frames["ward_fsa"].rows[r]
          IN /\ \E w \in DOMAIN frames["gdf_combined"].rows :
                \E f \in DOMAIN frames["fsa_boundaries"].rows :
                   /\ frames["gdf_combined"].rows[w].ward_number = row.ward_number
                   /\ frames["fsa_boundaries"].rows[f].CFSAUID = row.CFSAUID
                   /\ row.geometry = frames["gdf_combined"].rows[w].geometry
                                       \cap frames["fsa_boundaries"].rows[f].geometry
                   /\ row.area_frac.den > 0
                   /\ FracEq(row.area_frac,
                             Frac(Area(row.geometry), Area(frames["gdf_combined"].rows[w].geometry)))
             /\ FracLeq(Frac(0, 1), row.area_frac)
             /\ FracLeq(row.area_frac, Frac(1, 1))
    /\ \A w \in DOMAIN frames["gdf_combined"].rows :
       \A f \in DOMAIN frames["fsa_boundaries"].rows :
          frames["gdf_combined"].rows[w].geometry \cap frames["fsa_boundaries"].rows[f].geometry # {}
          => \E r \in DOMAIN frames["ward_fsa"].rows :
                /\ frames["ward_fsa"].rows[r].ward_number = frames["gdf_combined"].rows[w].ward_number
                /\ frames["ward_fsa"].rows[r].CFSAUID = frames["fsa_boundaries"].rows[f].CFSAUID

GetCount(url) == Cardinality({k \in DOMAIN io : io[k].op = "GET" /\ io[k].url = url})

\* the URLs round i of the download loop requests
RoundUrls(i) == {MetadataUrl(datasets[i]), ResourceUrl(datasets[i], resource_number[i])}

\* the URLs whose body goes to a file
DataUrls == {ResourceUrl(datasets[i], resource_number[i]) : i \in DOMAIN datasets}
               \cup {<<fsa_boundaries_url>>}

\* every body a data URL returned, an error body included, is written to
\* the file right after the request, unchecked
BodiesWritten ==
    \A k \in DOMAIN io :
       io[k].op = "GET" /\ io[k].url \in DataUrls /\ io[k].response # "ConnectionError"
       => /\ k + 1 \in DOMAIN io
          /\ io[k + 1].op = "write"
          /\ io[k + 1].content = [url |-> io[k].url, body |-> io[k].response]
          /\ files[io[k + 1].name] = io[k + 1].content

\* the FSA cell has run
FsaCellRan == gpc = 25 \/ (gpc = -1 /\ GetCount(<<fsa_boundaries_url>>) > 0)

\* C13 as stated: when a run of a download cell has ended, each metadata
\* URL and each data URL was requested exactly once, and every body
\* returned was written to its file.
C13_Original ==
    /\ gpc # 20 => \A i \in DOMAIN datasets : \A u \in RoundUrls(i) : GetCount(u) = 1
    /\ FsaCellRan => GetCount(<<fsa_boundaries_url>>) = 1
    /\ BodiesWritten

\* C13: no URL is ever requested twice; a run of the download loop that
\* ends without an exception has requested each metadata URL and each data
\* URL exactly once; a run that raises (no response, a metadata body that
\* is not the expected JSON, a resource index out of range) ends with that
\* request, and the URLs of the rounds after it are never requested; the
\* status is never checked, and whatever body a data URL returns, an error
\* body included, is written to the target file.
C13_NoRetry ==
    /\ \A i \in DOMAIN datasets : \A u \in RoundUrls(i) : GetCount(u) <= 1
    /\ loop.at = "done" => \A i \in DOMAIN datasets : \A u \in RoundUrls(i) : GetCount(u) = 1
    /\ gpc = -1 /\ loop.at # "done"
       => /\ io[Len(io)].op = "GET"
          /\ GetCount(io[Len(io)].url) = 1
          /\ \A i \in DOMAIN datasets : i > loop.i => \A u \in RoundUrls(i) : GetCount(u) = 0
    /\ FsaCellRan => GetCount(<<fsa_boundaries_url>>) = 1
    /\ BodiesWritten

\* the loop has ended without an exception, and one of its three files
\* holds an error body
C13_Witness ==
    /\ loop.at = "done"
    /\ \A i \in DOMAIN datasets : FileName(datasets[i], file_type[i]) \in DOMAIN files
    /\ \E n \in DOMAIN files : files[n].body = "error body"

\* the write events of the download loop
LoopWrites == {k \in DOMAIN io : io[k].op = "write" /\ io[k].content.url # <<fsa_boundaries_url>>}

====
